---- MODULE Spec2Model ----
(***************************************************************************)
(* Vite integration of the Starlite application                            *)
(* (src/src/app/domain/web/vite.py): the manifest-driven asset loader, the *)
(* template engine adapter, the template configuration wrapper and the     *)
(* dev-server runner, each as a state machine.                             *)
(*                                                                         *)
(* A Python string is modelled as the non-empty sequence of its lines (the *)
(* pieces between "\n"), so "" is <<EmptyLine>> and "\n".join(xs) is the   *)
(* concatenation of the line sequences of xs.  A line is a record naming   *)
(* the tag it holds.  A URL reference is a record [origin, rooted, segs]:  *)
(* origin is "scheme://host:port" or "", rooted says whether the path      *)
(* starts with "/", segs are the path segments (a last segment "" is a     *)
(* trailing slash).                                                        *)
(***************************************************************************)
EXTENDS Integers, Sequences, FiniteSets, TLC

VARIABLES
    \* ---- vite_config and ViteAssetLoader class state
    hot_reload,     \* vite_config.hot_reload
    is_react,       \* vite_config.is_react
    manifest,       \* ViteAssetLoader._manifest
    instance,       \* ViteAssetLoader._instance: 0 is None, else the object's id
    \* ---- one template call in progress (ViteTemplateEngine.resource / hmr_client)
    req,            \* the call being served: [op, path, attrs]
    stack,          \* activation records of generate_vite_asset, innermost last
    result,         \* outcome of the call: [kind, val]
    consulted,      \* whether the call has read _manifest
    \* ---- the manifest file and the threads constructing ViteAssetLoader()
    file,           \* what {static_dir}/manifest.json holds
    builds,         \* how often the frontend build has rewritten the file
    tpc,            \* per thread: position inside __new__
    tparsed,        \* per thread: value parse_manifest() returned to it
    tret,           \* per thread: outcome of its last construction
    reads,          \* how many times the manifest file has been opened
    allocs,         \* how many ViteAssetLoader objects have been allocated
    firstDone,      \* [done, inst, man]: the first successful construction
    \* ---- ViteTemplateConfig
    cfg,            \* the config object: [state, engine, directory, callback]
    cache,          \* cached_property slot of engine_instance: 0 is empty
    built,          \* how many engines to_engine has constructed
    attempts,       \* how many times to_engine has started constructing
    cbcalls,        \* engines passed to engine_callback, in call order
    access,         \* outcome of the last engine_instance access
    naccess,        \* number of engine_instance accesses so far
    \* ---- run_vite
    rpc,            \* position inside run_vite
    stream,         \* the chunks the child process writes on stdout before it exits
    cur,            \* how many of them the runner has received
    log,            \* messages written to the logger, in order
    pending,        \* exception travelling out of the try block
    intrAt          \* positions at which a KeyboardInterrupt has arrived

assetVars  == <<hot_reload, is_react, manifest, instance, req, stack, result, consulted>>
loaderVars == <<file, builds, tpc, tparsed, tret, reads, allocs, firstDone>>
configVars == <<cfg, cache, built, attempts, cbcalls, access, naccess>>
runVars    == <<rpc, stream, cur, log, pending, intrAt>>
vars == <<assetVars, loaderVars, configVars, runVars>>

----------------------------------------------------------------------------
(* Bounds of the model *)

MaxRefs == 3        \* total number of `css` and `imports` references in a manifest
MaxReads == 3       \* how many times the manifest file is opened in a behaviour
MaxBuilds == 1      \* how many times the frontend build rewrites the manifest file
MaxAccess == 3      \* how many times engine_instance is accessed
MaxChunks == 2      \* how many chunks the child process writes
MaxChunkLen == 2    \* how many characters a chunk holds
RecursionLimit == 4 \* stands for the interpreter's recursion limit (sys.getrecursionlimit()),
                    \* scaled down; it exceeds the number of manifest keys

(* Keys that manifests and requests range over. *)
Names == {"a", "b", "c"}

(* Values of the state of a component that is not running. *)
NoFile == [kind |-> "missing", doc |-> <<>>]
NotDone == [done |-> FALSE, inst |-> 0, man |-> <<>>, reads |-> 0]
NoDirectory == [kind |-> "None", val |-> <<>>]
NoConfig == [state |-> "none", engine |-> "", directory |-> NoDirectory, callback |-> ""]
NoAccess == [kind |-> "none", val |-> 0]

----------------------------------------------------------------------------
(* Strings and URLs *)

RECURSIVE SumOver(_, _)
SumOver(f, S) ==
    IF S = {} THEN 0
    ELSE LET k == CHOOSE x \in S : TRUE IN f[k] + SumOver(f, S \ {k})

RECURSIVE Flatten(_)
Flatten(ss) == IF ss = <<>> THEN <<>> ELSE Head(ss) \o Flatten(Tail(ss))

Front(s) == SubSeq(s, 1, Len(s) - 1)

NoUrl == [origin |-> "", rooted |-> FALSE, segs |-> <<>>]
EmptyLine == [tag |-> "", attrs |-> <<>>, url |-> NoUrl]
EmptyString == <<EmptyLine>>

(* "\n".join(parts): the lines of the parts, in order; "" for no parts. *)
Join(parts) == IF parts = <<>> THEN EmptyString ELSE Flatten(parts)

(* urllib.parse.urljoin for references without dot segments, query or fragment. *)
Urljoin(base, ref) ==
    IF ref.origin # "" THEN ref
    ELSE IF ref = NoUrl THEN base
    ELSE IF ref.rooted THEN [origin |-> base.origin, rooted |-> TRUE, segs |-> ref.segs]
    ELSE [origin |-> base.origin,
          rooted |-> base.rooted \/ base.origin # "",
          segs   |-> Front(base.segs) \o ref.segs]

Rel(segs) == [origin |-> "", rooted |-> FALSE, segs |-> segs]

static_url == [origin |-> "", rooted |-> TRUE, segs |-> <<"static", "">>]
base_path  == [origin |-> "http://localhost:3000", rooted |-> FALSE, segs |-> <<>>]

ViteServerUrl(ref) == Urljoin(base_path, Urljoin(static_url, ref))

None == [given |-> FALSE, items |-> <<>>]
Dict(items) == [given |-> TRUE, items |-> items]
DefaultAttrs == Dict(<< <<"type", "module">>, <<"async", "">>, <<"defer", "">> >>)

ScriptTag(src, attrs) ==
    << [tag |-> "script", attrs |-> IF attrs.given THEN attrs.items ELSE <<>>, url |-> src] >>

StyleTag(href) == << [tag |-> "link", attrs |-> << <<"rel", "stylesheet">> >>, url |-> href] >>

----------------------------------------------------------------------------
(* ViteAssetLoader: tag generation *)

FileOf == [a |-> "a.js", b |-> "b.js", c |-> "c.js"]
CssOf  == [a |-> <<"a1.css", "a2.css", "a3.css", "a4.css", "a5.css">>,
           b |-> <<"b1.css", "b2.css", "b3.css", "b4.css", "b5.css">>,
           c |-> <<"c1.css", "c2.css", "c3.css", "c4.css", "c5.css">>]

(* A manifest entry.  An absent "css" or "imports" key behaves as an empty list. *)
Entry(k, ncss, imports) ==
    [file    |-> Rel(<<"assets", FileOf[k]>>),
     css     |-> [i \in 1..ncss |-> Rel(<<"assets", CssOf[k][i]>>)],
     imports |-> imports]

(* The imports list of key k given the manifest's import references in file order. *)
RECURSIVE ImportsOf(_, _)
ImportsOf(k, edges) ==
    IF edges = <<>> THEN <<>>
    ELSE IF Head(edges)[1] = k THEN <<Head(edges)[2]>> \o ImportsOf(k, Tail(edges))
    ELSE ImportsOf(k, Tail(edges))

(* Manifests are taken up to renaming of their keys: the keys present are none, a,
   a and b, or all of Names; a reference may name any of Names, present or not. *)
KeySets == { {}, {"a"}, {"a", "b"}, Names }

Manifests ==
    UNION { UNION { { [k \in S |-> Entry(k, nc[k], ImportsOf(k, edges))] :
                        nc \in { f \in [S -> 0..(MaxRefs - n)] : SumOver(f, S) <= MaxRefs - n },
                        edges \in [1..n -> S \X Names] } :
                    n \in 0..MaxRefs } :
            S \in KeySets }

(* Manifests without references: what _manifest can hold while hot_reload is on (the
   empty mapping parse_manifest returns, or a manifest loaded before the switch). *)
PlainManifests == { m \in Manifests : \A k \in DOMAIN m : m[k].css = <<>> /\ m[k].imports = <<>> }

AttrValues == { None, Dict(<<>>), Dict(<< <<"type", "text/javascript">> >>) }

Idle == [op |-> "none", path |-> "", attrs |-> None]
NoResult == [kind |-> "none", val |-> <<>>]

Frame(path, attrs) == [path |-> path, attrs |-> attrs, pc |-> "entry", tags |-> <<>>, j |-> 1]

Top == stack[Len(stack)]

HotReloadTagNoServer(path) == ScriptTag(Urljoin(static_url, Rel(<<path>>)), DefaultAttrs)

(* vite.py:179-182 *)
HotReloadTag(path) == ScriptTag(ViteServerUrl(Rel(<<path>>)), DefaultAttrs)

(* vite.py:184 *)
InManifest(path) == path \in DOMAIN manifest

(* vite.py:193-194 *)
EffectiveAttrs(attrs) == IF ~attrs.given \/ attrs.items = <<>> THEN DefaultAttrs ELSE attrs

(* vite.py:197-199 *)
CssTags(entry) == [i \in 1..Len(entry.css) |-> StyleTag(Urljoin(static_url, entry.css[i]))]

(* vite.py:203: the loop over the entry's imports has an element left *)
MoreImportsSkipLast(frame) == frame.j < Len(manifest[frame.path].imports)

MoreImports(frame) == frame.j <= Len(manifest[frame.path].imports)

AppendImportedOnce(tags, sub) ==
    IF \E i \in 1..Len(tags) : tags[i] = sub THEN tags ELSE Append(tags, sub)

(* vite.py:204: the callee's string is appended to the caller's tags *)
AppendImported(tags, sub) == Append(tags, sub)

(* vite.py:207-214 *)
WithOwnScript(tags, entry, attrs) ==
    Join(Append(tags, ScriptTag(Urljoin(static_url, entry.file), attrs)))

(* A call returns val: to the template if it is the outermost one, else into the
   caller's loop over imports (vite.py:204). *)
ReturnValue(val) ==
    IF Len(stack) = 1
    THEN /\ stack' = <<>>
         /\ result' = [kind |-> "value", val |-> val]
    ELSE /\ stack' = Front(Front(stack)) \o
                        << [stack[Len(stack) - 1] EXCEPT
                              !.tags = AppendImported(@, val), !.j = @ + 1] >>
         /\ UNCHANGED result

(* An exception raised inside generate_vite_asset: no frame handles it. *)
Raise(kind) ==
    /\ stack' = <<>>
    /\ result' = [kind |-> kind, val |-> <<>>]

(* ViteTemplateEngine.resource(path, scripts_attrs) *)
Resource(path, attrs) ==
    /\ stack = <<>>
    /\ req' = [op |-> "resource", path |-> path, attrs |-> attrs]
    /\ stack' = <<Frame(path, attrs)>>
    /\ result' = NoResult
    /\ consulted' = FALSE
    /\ UNCHANGED <<hot_reload, is_react, manifest, instance>>
    /\ UNCHANGED <<loaderVars, configVars, runVars>>

(* vite.py:178-182 *)
HotReloadReturn ==
    /\ stack # <<>> /\ Top.pc = "entry"
    /\ hot_reload
    /\ ReturnValue(HotReloadTag(Top.path))
    /\ UNCHANGED <<hot_reload, is_react, manifest, instance, req, consulted>>
    /\ UNCHANGED <<loaderVars, configVars, runVars>>

NotFoundSwallowed ==
    /\ stack # <<>> /\ Top.pc = "entry"
    /\ ~hot_reload
    /\ ~InManifest(Top.path)
    /\ consulted' = TRUE
    /\ ReturnValue(EmptyString)
    /\ UNCHANGED <<hot_reload, is_react, manifest, instance, req>>
    /\ UNCHANGED <<loaderVars, configVars, runVars>>

(* vite.py:184-189 *)
NotFoundRaise ==
    /\ stack # <<>> /\ Top.pc = "entry"
    /\ ~hot_reload
    /\ ~InManifest(Top.path)
    /\ consulted' = TRUE
    /\ Raise("NotFound")
    /\ UNCHANGED <<hot_reload, is_react, manifest, instance, req>>
    /\ UNCHANGED <<loaderVars, configVars, runVars>>

(* vite.py:191-199 *)
EntryFound ==
    /\ stack # <<>> /\ Top.pc = "entry"
    /\ ~hot_reload
    /\ InManifest(Top.path)
    /\ consulted' = TRUE
    /\ stack' = [stack EXCEPT ![Len(stack)] =
                    [@ EXCEPT !.pc = "imports",
                              !.attrs = EffectiveAttrs(@),
                              !.tags = CssTags(manifest[Top.path])]]
    /\ UNCHANGED <<hot_reload, is_react, manifest, instance, req, result>>
    /\ UNCHANGED <<loaderVars, configVars, runVars>>

(* vite.py:202-204: the recursive call for the next import *)
CallImport ==
    /\ stack # <<>> /\ Top.pc = "imports"
    /\ MoreImports(Top)
    /\ Len(stack) < RecursionLimit
    /\ stack' = Append(stack, Frame(manifest[Top.path].imports[Top.j], Top.attrs))
    /\ UNCHANGED <<hot_reload, is_react, manifest, instance, req, result, consulted>>
    /\ UNCHANGED <<loaderVars, configVars, runVars>>

(* The same call when the interpreter's recursion limit is reached. *)
RecursionOverflow ==
    /\ stack # <<>> /\ Top.pc = "imports"
    /\ MoreImports(Top)
    /\ Len(stack) >= RecursionLimit
    /\ Raise("RecursionError")
    /\ UNCHANGED <<hot_reload, is_react, manifest, instance, req, consulted>>
    /\ UNCHANGED <<loaderVars, configVars, runVars>>

(* vite.py:206-214 *)
ScriptReturn ==
    /\ stack # <<>> /\ Top.pc = "imports"
    /\ ~MoreImports(Top)
    /\ ReturnValue(WithOwnScript(Top.tags, manifest[Top.path], Top.attrs))
    /\ UNCHANGED <<hot_reload, is_react, manifest, instance, req, consulted>>
    /\ UNCHANGED <<loaderVars, configVars, runVars>>

(* vite.py:136-150 *)
generate_vite_ws_client ==
    IF ~hot_reload THEN EmptyString
    ELSE ScriptTag(ViteServerUrl(Rel(<<"@vite", "client">>)), Dict(<< <<"type", "module">> >>))

(* vite.py:152-170: the inline block starts and ends with a line break *)
generate_vite_react_hmr ==
    IF is_react /\ hot_reload
    THEN << EmptyLine,
            [tag |-> "react-refresh", attrs |-> << <<"type", "module">> >>,
             url |-> ViteServerUrl(NoUrl)],
            EmptyLine >>
    ELSE EmptyString

(* vite.py:265-277 *)
hmr_client == Join(<<generate_vite_react_hmr, generate_vite_ws_client>>)

AssetStep == HotReloadReturn \/ NotFoundRaise \/ EntryFound \/ CallImport
                \/ RecursionOverflow \/ ScriptReturn

----------------------------------------------------------------------------
(* The imports graph of the loaded manifest *)

Succ(k) == IF k \in DOMAIN manifest
           THEN { manifest[k].imports[i] : i \in 1..Len(manifest[k].imports) }
           ELSE {}

RECURSIVE Closure(_)
Closure(S) ==
    LET T == S \cup UNION { Succ(k) : k \in S }
    IN IF T = S THEN S ELSE Closure(T)

(* Keys reachable from path through imports lists, path included. *)
Reach(path) == Closure({path})

Acyclic(path) == \A k \in Reach(path) : k \notin Closure(Succ(k))
AllPresent(path) == Reach(path) \subseteq DOMAIN manifest

ManifestCall == req.op = "resource" /\ ~hot_reload
Finished == stack = <<>> /\ result.kind # "none"

----------------------------------------------------------------------------
(* C1 *)

ExpectedAttrs(attrs) == IF attrs.given /\ attrs.items # <<>> THEN attrs.items
                        ELSE << <<"type", "module">>, <<"async", "">>, <<"defer", "">> >>

Static(ref) == [origin |-> "", rooted |-> TRUE, segs |-> <<"static">> \o ref.segs]

RECURSIVE ExpectedTags(_, _)
ExpectedTags(k, attrs) ==
    LET e == manifest[k]
        links == [i \in 1..Len(e.css) |->
                    [tag |-> "link", attrs |-> << <<"rel", "stylesheet">> >>,
                     url |-> Static(e.css[i])]]
        imported == Flatten([i \in 1..Len(e.imports) |-> ExpectedTags(e.imports[i], attrs)])
        own == << [tag |-> "script", attrs |-> ExpectedAttrs(attrs), url |-> Static(e.file)] >>
    IN links \o imported \o own

(* C1: in manifest mode, over an acyclic imports graph with every referenced key
   present, a finished call has returned the stylesheet links of the entry's css
   list, then the full tags of each import in list order (depth-first, nothing
   deduplicated), then exactly one script tag for the entry's own file. *)
C1_TagOrder ==
    (ManifestCall /\ Finished /\ Acyclic(req.path) /\ AllPresent(req.path))
        => result = [kind |-> "value", val |-> ExpectedTags(req.path, req.attrs)]

(* A diamond: c is imported by a directly and through b, and its tag appears twice. *)
C1_Witness ==
    /\ ManifestCall /\ Finished /\ req.path = "a"
    /\ DOMAIN manifest = Names
    /\ manifest["a"].imports = <<"b", "c">>
    /\ manifest["b"].imports = <<"c">>
    /\ result.kind = "value" /\ Len(result.val) = 4
    /\ result.val[1] = result.val[3]

----------------------------------------------------------------------------
(* C2 *)

MissingReachable(path) == ~AllPresent(path)

(* C2 as stated: in manifest mode a call ends in the not-found error whenever the
   path or any key reachable through imports lists is not a key of the manifest,
   returning no tags and leaving the manifest unchanged. *)
C2_Original ==
    (ManifestCall /\ Finished /\ MissingReachable(req.path))
        => /\ result = [kind |-> "NotFound", val |-> <<>>]
           /\ manifest = firstDone.man

(* C2 amended: the same, for a path that is not a key, and for an acyclic imports
   graph in which some reachable key is not a key of the manifest. *)
C2_NotFound ==
    (ManifestCall /\ Finished /\ MissingReachable(req.path)
        /\ (req.path \notin DOMAIN manifest \/ Acyclic(req.path)))
        => /\ result = [kind |-> "NotFound", val |-> <<>>]
           /\ manifest = firstDone.man

(* The missing key is two imports away from the requested entry. *)
C2_Witness ==
    /\ ManifestCall /\ Finished /\ result.kind = "NotFound"
    /\ req.path \in DOMAIN manifest
    /\ \A i \in 1..Len(manifest[req.path].imports) :
            manifest[req.path].imports[i] \in DOMAIN manifest
    /\ Acyclic(req.path)

----------------------------------------------------------------------------
(* C3 *)

DevServer(path) == [origin |-> "http://localhost:3000", rooted |-> TRUE,
                    segs |-> <<"static", path>>]

(* C3: with hot_reload on, a call never reads the manifest and never raises; it
   returns exactly one script tag with type=module, async, defer whose src is the
   dev-server URL of the path, whatever the attrs and whether or not the path is
   a manifest key. *)
C3_HotReload ==
    (req.op = "resource" /\ hot_reload)
        => /\ ~consulted
           /\ Len(stack) <= 1
           /\ result.kind \in {"none", "value"}
           /\ Finished =>
                result.val = << [tag |-> "script",
                                 attrs |-> << <<"type", "module">>, <<"async", "">>,
                                              <<"defer", "">> >>,
                                 url |-> DevServer(req.path)] >>

C3_Witness ==
    /\ req.op = "resource" /\ hot_reload /\ Finished
    /\ req.path \in DOMAIN manifest
    /\ req.attrs = Dict(<< <<"type", "text/javascript">> >>)

----------------------------------------------------------------------------
(* C10 *)

(* C10 as stated: a call over an imports graph with a cycle never produces a
   result (neither tags nor the not-found error). *)
C10_Original ==
    (ManifestCall /\ ~Acyclic(req.path)) => result.kind \notin {"value", "NotFound"}

C10_AcyclicEnds ==
    (ManifestCall /\ Finished /\ Acyclic(req.path)) => result.kind \in {"value", "NotFound"}

C10_CycleNeverEnds ==
    (ManifestCall /\ ~Acyclic(req.path) /\ AllPresent(req.path))
        => result.kind \notin {"value", "NotFound"}

(* C10 amended: over an acyclic graph every call ends, with tags or with not-found;
   over a graph with a cycle in which every reachable key is present the call never
   returns tags or not-found: nothing guards the recursion, which deepens until the
   interpreter's recursion limit stops it. *)
C10_Termination ==
    /\ [](C10_AcyclicEnds /\ C10_CycleNeverEnds)
    /\ ((ManifestCall /\ stack # <<>> /\ Acyclic(req.path)) ~> Finished)

C10_Witness ==
    /\ ManifestCall /\ ~Acyclic(req.path) /\ AllPresent(req.path)
    /\ result.kind = "RecursionError"

----------------------------------------------------------------------------
(* ViteAssetLoader: the manifest file, parse_manifest and the singleton __new__ *)

(* A JSON document is the sequence of its members <<key, value>> in file order. *)
Docs ==
    { <<>>,
      << <<"a", Entry("a", 0, <<>>)>> >>,
      << <<"a", Entry("a", 1, <<"b">>)>>, <<"b", Entry("b", 0, <<>>)>> >>,
      << <<"a", Entry("a", 0, <<"b">>)>>, <<"a", Entry("a", 0, <<>>)>> >> }

FileStates ==
    { [kind |-> k, doc |-> <<>>] : k \in {"missing", "unreadable", "invalid"} }
        \cup { [kind |-> "json", doc |-> d] : d \in Docs }

(* json.loads of an object: a mapping; of a repeated key the last member counts. *)
JsonLoads(doc) ==
    [k \in { doc[i][1] : i \in 1..Len(doc) } |->
        doc[CHOOSE i \in 1..Len(doc) :
                /\ doc[i][1] = k
                /\ \A j \in (i + 1)..Len(doc) : doc[j][1] # k][2]]

(* vite.py:123-134.  Path.open() and read() (lines 125-126) stand outside the try
   block: an OSError leaves parse_manifest as it is; only json.loads (line 128) is
   wrapped into RuntimeError. *)
parse_manifest(hot, f) ==
    IF hot THEN [exc |-> "none", value |-> <<>>, opened |-> FALSE]
    ELSE IF f.kind \in {"missing", "unreadable"}
         THEN [exc |-> "OSError", value |-> <<>>, opened |-> TRUE]
    ELSE IF f.kind = "invalid"
         THEN [exc |-> "RuntimeError", value |-> <<>>, opened |-> TRUE]
    ELSE [exc |-> "none", value |-> JsonLoads(f.doc), opened |-> TRUE]

Threads == {"t1", "t2"}

NoOutcome == [kind |-> "none", val |-> 0, saw |-> "", hot |-> FALSE]

(* A thread calls ViteAssetLoader(). *)
Begin(t) ==
    /\ tpc[t] = "idle"
    /\ tpc' = [tpc EXCEPT ![t] = "check"]
    /\ tret' = [tret EXCEPT ![t] = NoOutcome]
    /\ UNCHANGED <<file, builds, tparsed, reads, allocs, firstDone>>
    /\ UNCHANGED <<assetVars, configVars, runVars>>

(* vite.py:88 *)
CheckInstance(t) ==
    /\ tpc[t] = "check"
    /\ tpc' = [tpc EXCEPT ![t] = IF instance = 0 THEN "parse" ELSE "return"]
    /\ UNCHANGED <<file, builds, tparsed, tret, reads, allocs, firstDone>>
    /\ UNCHANGED <<assetVars, configVars, runVars>>

(* vite.py:89, the call of parse_manifest() *)
Parse(t) ==
    /\ tpc[t] = "parse"
    /\ reads < MaxReads
    /\ LET r == parse_manifest(hot_reload, file)
       IN /\ reads' = IF r.opened THEN reads + 1 ELSE reads
          /\ IF r.exc # "none"
             THEN /\ tpc' = [tpc EXCEPT ![t] = "idle"]
                  /\ tret' = [tret EXCEPT ![t] =
                                [kind |-> r.exc, val |-> 0, saw |-> file.kind,
                                 hot |-> hot_reload]]
                  /\ UNCHANGED tparsed
             ELSE /\ tpc' = [tpc EXCEPT ![t] = "store"]
                  /\ tparsed' = [tparsed EXCEPT ![t] = r.value]
                  /\ UNCHANGED tret
    /\ UNCHANGED <<file, builds, allocs, firstDone>>
    /\ UNCHANGED <<assetVars, configVars, runVars>>

(* vite.py:89, the assignment to cls._manifest *)
StoreManifest(t) ==
    /\ tpc[t] = "store"
    /\ manifest' = tparsed[t]
    /\ tpc' = [tpc EXCEPT ![t] = "alloc"]
    /\ UNCHANGED <<hot_reload, is_react, instance, req, stack, result, consulted>>
    /\ UNCHANGED <<file, builds, tparsed, tret, reads, allocs, firstDone>>
    /\ UNCHANGED <<configVars, runVars>>

(* vite.py:90 *)
StoreInstance(t) ==
    /\ tpc[t] = "alloc"
    /\ allocs' = allocs + 1
    /\ instance' = allocs + 1
    /\ tpc' = [tpc EXCEPT ![t] = "return"]
    /\ UNCHANGED <<hot_reload, is_react, manifest, req, stack, result, consulted>>
    /\ UNCHANGED <<file, builds, tparsed, tret, reads, firstDone>>
    /\ UNCHANGED <<configVars, runVars>>

(* vite.py:91 *)
ReturnInstance(t) ==
    /\ tpc[t] = "return"
    /\ tpc' = [tpc EXCEPT ![t] = "idle"]
    /\ tret' = [tret EXCEPT ![t] =
                    [kind |-> "instance", val |-> instance, saw |-> "", hot |-> hot_reload]]
    /\ firstDone' = IF firstDone.done THEN firstDone
                    ELSE [done |-> TRUE, inst |-> instance, man |-> manifest,
                          reads |-> reads]
    /\ UNCHANGED <<file, builds, tparsed, reads, allocs>>
    /\ UNCHANGED <<assetVars, configVars, runVars>>

(* The frontend build step rewrites (or removes) the manifest file. *)
Build(f) ==
    /\ builds < MaxBuilds
    /\ f # file
    /\ file' = f
    /\ builds' = builds + 1
    /\ UNCHANGED <<tpc, tparsed, tret, reads, allocs, firstDone>>
    /\ UNCHANGED <<assetVars, configVars, runVars>>

InitLoader ==
    /\ hot_reload \in BOOLEAN
    /\ is_react = FALSE
    /\ manifest = <<>>
    /\ instance = 0
    /\ req = Idle /\ stack = <<>> /\ result = NoResult /\ consulted = FALSE
    /\ file \in FileStates
    /\ builds = 0
    /\ tpc = [t \in Threads |-> "idle"]
    /\ tparsed = [t \in Threads |-> <<>>]
    /\ tret = [t \in Threads |-> NoOutcome]
    /\ reads = 0 /\ allocs = 0 /\ firstDone = NotDone
    /\ cfg = NoConfig /\ cache = 0 /\ built = 0 /\ attempts = 0 /\ cbcalls = <<>>
    /\ access = NoAccess /\ naccess = 0
    /\ rpc = "off" /\ stream = <<>> /\ cur = 0 /\ log = <<>> /\ pending = "none"
    /\ intrAt = {}

NextLoader ==
    \/ \E t \in Threads : Begin(t)
    \/ \E t \in Threads : CheckInstance(t)
    \/ \E t \in Threads : Parse(t)
    \/ \E t \in Threads : StoreManifest(t)
    \/ \E t \in Threads : StoreInstance(t)
    \/ \E t \in Threads : ReturnInstance(t)
    \/ \E f \in FileStates : Build(f)

SpecLoader == InitLoader /\ [][NextLoader]_vars

----------------------------------------------------------------------------
(* C4 *)

(* C4: with hot_reload off, parse_manifest fails with RuntimeError both when the
   file is missing or unreadable and when it holds invalid JSON; with hot_reload
   on it returns the empty mapping and opens no file. *)
C4_LoadError ==
    \A t \in Threads :
        /\ (tret[t].saw \in {"missing", "unreadable", "invalid"} /\ ~tret[t].hot)
                => tret[t].kind = "RuntimeError"
        /\ hot_reload => (reads = 0 /\ manifest = <<>>)

----------------------------------------------------------------------------
(* C9 *)

(* C9: once a first construction has completed, the manifest file is not opened
   again, the class keeps the instance that construction returned and the manifest
   it parsed, and every construction returns that instance. *)
C9_Singleton ==
    firstDone.done =>
        /\ reads = firstDone.reads
        /\ instance = firstDone.inst
        /\ manifest = firstDone.man
        /\ \A t \in Threads : tret[t].kind = "instance" => tret[t].val = firstDone.inst

----------------------------------------------------------------------------
(* ViteTemplateConfig and the ViteTemplateEngine it builds *)

(* A directory argument: None, a string or a list, which is falsy when empty. *)
Directories ==
    { NoDirectory,
      [kind |-> "str", val |-> <<>>],
      [kind |-> "list", val |-> <<>>],
      [kind |-> "str", val |-> <<"templates">>],
      [kind |-> "list", val |-> <<"templates", "shared">>] }

Falsy(directory) == directory.kind = "None" \/ directory.val = <<>>

RejectsNoneOnly(engine, directory) == engine = "class" /\ directory.kind = "None"

(* vite.py:323 *)
Rejects(engine, directory) == engine = "class" /\ Falsy(directory)

(* vite.py:321-324, run by the dataclass constructor *)
Construct(engine, directory, callback) ==
    /\ cfg.state = "none"
    /\ cfg' = [state |-> IF Rejects(engine, directory) THEN "rejected" ELSE "ready",
               engine |-> engine, directory |-> directory, callback |-> callback]
    /\ UNCHANGED <<cache, built, attempts, cbcalls, access, naccess>>
    /\ UNCHANGED <<assetVars, loaderVars, runVars>>

(* vite.py:86-91 run by one thread without interruption *)
NewLoader ==
    IF instance # 0
    THEN [exc |-> "none", inst |-> instance, man |-> manifest, opened |-> FALSE, new |-> FALSE]
    ELSE LET r == parse_manifest(hot_reload, file)
         IN IF r.exc # "none"
            THEN [exc |-> r.exc, inst |-> 0, man |-> manifest, opened |-> r.opened,
                  new |-> FALSE]
            ELSE [exc |-> "none", inst |-> allocs + 1, man |-> r.value,
                  opened |-> r.opened, new |-> TRUE]

(* engine_callback is None, a function that returns, one that raises, or one that
   raises on some calls and returns on others. *)
Callbacks == {"None", "returns", "raises", "flaky"}

CallbackRaises(callback) ==
    CASE callback = "raises" -> {TRUE}
      [] callback = "flaky" -> BOOLEAN
      [] OTHER -> {FALSE}

NeverCached == FALSE

(* vite.py:333, functools.cached_property: the value is in the object's __dict__ *)
CacheHit == cache # 0

(* vite.py:333-336 with to_engine (326-331) and ViteTemplateEngine.__init__ (258-263) *)
EngineInstance ==
    /\ cfg.state = "ready"
    /\ naccess < MaxAccess
    /\ naccess' = naccess + 1
    /\ UNCHANGED cfg
    /\ IF CacheHit
       THEN /\ access' = [kind |-> "value", val |-> cache]
            /\ UNCHANGED <<cache, built, attempts, cbcalls>>
            /\ UNCHANGED <<manifest, instance, reads, allocs>>
       ELSE LET isclass == cfg.engine = "class"
                l == IF isclass THEN NewLoader
                     ELSE [exc |-> "none", inst |-> instance, man |-> manifest,
                           opened |-> FALSE, new |-> FALSE]
                id == built + 1
            IN /\ attempts' = IF isclass THEN attempts + 1 ELSE attempts
               /\ reads' = IF l.opened THEN reads + 1 ELSE reads
               /\ allocs' = IF l.new THEN allocs + 1 ELSE allocs
               /\ instance' = l.inst
               /\ manifest' = l.man
               /\ IF l.exc # "none"
                  THEN /\ access' = [kind |-> l.exc, val |-> 0]
                       /\ UNCHANGED <<cache, built, cbcalls>>
                  ELSE /\ built' = IF isclass THEN built + 1 ELSE built
                       /\ cbcalls' = IF cfg.callback = "None" THEN cbcalls
                                     ELSE Append(cbcalls, id)
                       /\ \E raises \in CallbackRaises(cfg.callback) :
                            IF raises
                            THEN /\ access' = [kind |-> "CallbackError", val |-> 0]
                                 /\ UNCHANGED cache
                            ELSE /\ access' = [kind |-> "value", val |-> id]
                                 /\ cache' = id
    /\ UNCHANGED <<hot_reload, is_react, req, stack, result, consulted>>
    /\ UNCHANGED <<file, builds, tpc, tparsed, tret, firstDone>>
    /\ UNCHANGED runVars

(* A page template calls vite_hmr_client() of the engine (vite.py:262, 265-277). *)
HmrClient ==
    /\ cache # 0
    /\ req.op = "none"
    /\ req' = [op |-> "hmr_client", path |-> "", attrs |-> None]
    /\ result' = [kind |-> "value", val |-> hmr_client]
    /\ UNCHANGED <<hot_reload, is_react, manifest, instance, stack, consulted>>
    /\ UNCHANGED <<loaderVars, configVars, runVars>>

InitConfig ==
    /\ hot_reload \in BOOLEAN
    /\ is_react \in BOOLEAN
    /\ manifest = <<>>
    /\ instance = 0
    /\ req = Idle /\ stack = <<>> /\ result = NoResult /\ consulted = FALSE
    /\ file \in FileStates
    /\ builds = 0 /\ tpc = <<>> /\ tparsed = <<>> /\ tret = <<>>
    /\ reads = 0 /\ allocs = 0 /\ firstDone = NotDone
    /\ cfg = NoConfig /\ cache = 0 /\ built = 0 /\ attempts = 0 /\ cbcalls = <<>>
    /\ access = NoAccess /\ naccess = 0
    /\ rpc = "off" /\ stream = <<>> /\ cur = 0 /\ log = <<>> /\ pending = "none"
    /\ intrAt = {}

NextConfig ==
    \/ \E engine \in {"class", "instance"}, directory \in Directories,
          callback \in Callbacks :
            Construct(engine, directory, callback)
    \/ EngineInstance
    \/ HmrClient
    \/ \E f \in FileStates : Build(f)

SpecConfig == InitConfig /\ [][NextConfig]_vars

----------------------------------------------------------------------------
(* C5 *)

(* C5 as stated: over any sequence of accesses the engine is constructed at most
   once and engine_callback is invoked at most once. *)
C5_Original == built <= 1 /\ Len(cbcalls) <= 1

C5_CachedValue ==
    /\ cache # 0 =>
        /\ built <= cache
        /\ cfg.callback # "None" => (cbcalls # <<>> /\ cbcalls[Len(cbcalls)] = cache)
        /\ cfg.engine = "class" => built = cache
    /\ (access.kind = "value" /\ cache # 0) => access.val = cache

C5_CacheKept ==
    /\ cache # 0 =>
        /\ cache' = cache /\ built' = built /\ attempts' = attempts /\ cbcalls' = cbcalls
        /\ naccess' # naccess => access' = [kind |-> "value", val |-> cache]
    /\ (naccess' # naccess /\ access'.kind # "value") => cache' = 0

(* C5 amended: once an access to engine_instance has returned an engine, every later
   access returns that same object without constructing an engine or invoking the
   callback again; the callback of that access received the engine; an access in
   which construction or the callback raises caches nothing, so the next access
   constructs and calls back again. *)
C5_Memoized == []C5_CachedValue /\ [][C5_CacheKept]_vars

(* The callback raised on the first access; the second access built and cached
   another engine, and the third returned it from the cache. *)
C5_Witness ==
    /\ cache = 2 /\ naccess = 3 /\ cfg.engine = "class"
    /\ cbcalls = <<1, 2>> /\ built = 2
    /\ access = [kind |-> "value", val |-> 2]

----------------------------------------------------------------------------
(* C6 *)

(* C6: construction fails exactly when engine is a class and directory is None or
   empty; it never instantiates the engine. *)
C6_DirectoryRequired ==
    /\ cfg.state = "rejected" =>
            /\ cfg.engine = "class"
            /\ cfg.directory \in { NoDirectory, [kind |-> "str", val |-> <<>>],
                                   [kind |-> "list", val |-> <<>>] }
            /\ built = 0 /\ attempts = 0 /\ cache = 0 /\ cbcalls = <<>>
    /\ cfg.state = "ready" =>
            /\ \/ cfg.engine = "instance"
               \/ cfg.directory.val # <<>>
            /\ naccess = 0 => (built = 0 /\ attempts = 0 /\ cache = 0 /\ cbcalls = <<>>)

C6_Witness == cfg.state = "rejected" /\ cfg.directory = [kind |-> "list", val |-> <<>>]

----------------------------------------------------------------------------
(* C7 *)

(* C7: with hot_reload off, hmr_client returns the empty string whatever is_react. *)
C7_HmrEmpty ==
    (req.op = "hmr_client" /\ ~hot_reload) => result.val = EmptyString

----------------------------------------------------------------------------
(* run_vite *)

Chars == {"v", "\n"}
Chunks == UNION { [1..n -> Chars] : n \in 1..MaxChunkLen }
Outputs == UNION { [1..n -> Chunks] : n \in 0..MaxChunks }

(* vite.py:375, text.replace("\n", "") *)
RemoveNewlines(text) == SelectSeq(text, LAMBDA ch : ch # "\n")

ViteMessage(text) == [event |-> "Vite", message |-> RemoveNewlines(text)]
Stopped == [event |-> "Vite Service stopped.", message |-> <<>>]

NothingSuppressed(exc) == FALSE

(* vite.py:360 *)
Suppressed(exc) == exc = "KeyboardInterrupt"

(* How run_vite ends once the with block is left with exception exc (or "none"). *)
Leave(exc) == IF exc = "none" \/ Suppressed(exc) THEN "returned" ELSE "raised"

(* vite.py:359 *)
Configure ==
    /\ rpc = "configure"
    /\ rpc' = "spawn"
    /\ UNCHANGED <<stream, cur, log, pending, intrAt>>
    /\ UNCHANGED <<assetVars, loaderVars, configVars>>

(* vite.py:362, 373: the event loop starts and open_process returns the child *)
SpawnChild ==
    /\ rpc = "spawn"
    /\ rpc' = "read"
    /\ UNCHANGED <<stream, cur, log, pending, intrAt>>
    /\ UNCHANGED <<assetVars, loaderVars, configVars>>

(* vite.py:373: the run command cannot be started *)
SpawnFails ==
    /\ rpc = "spawn"
    /\ rpc' = "finally"
    /\ pending' = "OSError"
    /\ UNCHANGED <<stream, cur, log, intrAt>>
    /\ UNCHANGED <<assetVars, loaderVars, configVars>>

(* vite.py:374: the next chunk of the child's output arrives *)
ReceiveChunk ==
    /\ rpc = "read"
    /\ cur < Len(stream)
    /\ cur' = cur + 1
    /\ rpc' = "log"
    /\ UNCHANGED <<stream, log, pending, intrAt>>
    /\ UNCHANGED <<assetVars, loaderVars, configVars>>

(* vite.py:375 *)
LogChunk ==
    /\ rpc = "log"
    /\ log' = Append(log, ViteMessage(stream[cur]))
    /\ rpc' = "read"
    /\ UNCHANGED <<stream, cur, pending, intrAt>>
    /\ UNCHANGED <<assetVars, loaderVars, configVars>>

(* vite.py:373-374: the stream ends, the process is closed, anyio.run returns *)
StreamClosed ==
    /\ rpc = "read"
    /\ cur = Len(stream)
    /\ rpc' = "finally"
    /\ UNCHANGED <<stream, cur, log, pending, intrAt>>
    /\ UNCHANGED <<assetVars, loaderVars, configVars>>

(* vite.py:363-364, then the exit of the with block of line 360 *)
Finally ==
    /\ rpc = "finally"
    /\ log' = Append(log, Stopped)
    /\ rpc' = Leave(pending)
    /\ UNCHANGED <<stream, cur, pending, intrAt>>
    /\ UNCHANGED <<assetVars, loaderVars, configVars>>

(* KeyboardInterrupt is raised at the statement being executed: outside the with
   block (line 359) it leaves run_vite; inside anyio.run it ends the event loop and
   reaches the finally clause; inside the finally clause it replaces the exception
   in flight before the message is logged and is then suppressed. *)
Interrupt ==
    /\ rpc \in {"configure", "spawn", "read", "log", "finally"}
    /\ intrAt' = intrAt \cup {rpc}
    /\ pending' = "KeyboardInterrupt"
    /\ rpc' = CASE rpc = "configure" -> "raised"
                [] rpc = "finally" -> Leave("KeyboardInterrupt")
                [] OTHER -> "finally"
    /\ UNCHANGED <<stream, cur, log>>
    /\ UNCHANGED <<assetVars, loaderVars, configVars>>

InitRun ==
    /\ hot_reload = FALSE
    /\ is_react = FALSE
    /\ manifest = <<>>
    /\ instance = 0
    /\ req = Idle /\ stack = <<>> /\ result = NoResult /\ consulted = FALSE
    /\ file = NoFile /\ builds = 0 /\ tpc = <<>> /\ tparsed = <<>> /\ tret = <<>>
    /\ reads = 0 /\ allocs = 0 /\ firstDone = NotDone
    /\ cfg = NoConfig /\ cache = 0 /\ built = 0 /\ attempts = 0 /\ cbcalls = <<>>
    /\ access = NoAccess /\ naccess = 0
    /\ rpc = "configure"
    /\ stream \in Outputs
    /\ cur = 0
    /\ log = <<>>
    /\ pending = "none"
    /\ intrAt = {}

NextRun ==
    \/ Configure
    \/ SpawnChild
    \/ SpawnFails
    \/ ReceiveChunk
    \/ LogChunk
    \/ StreamClosed
    \/ Finally
    \/ Interrupt

SpecRun == InitRun /\ [][NextRun]_vars

----------------------------------------------------------------------------
(* C8 *)

Ended == rpc \in {"returned", "raised"}
StoppedCount == Cardinality({ i \in 1..Len(log) : log[i] = Stopped })
Forwarded == SelectSeq(log, LAMBDA m : m # Stopped)

C8_ShutdownOnce ==
    /\ rpc = "returned"
    /\ StoppedCount = 1
    /\ log[Len(log)] = Stopped

(* C8 as stated: whenever a KeyboardInterrupt arrived, run_vite returns normally
   and the shutdown message is logged exactly once, after every forwarded message. *)
C8_Original == (Ended /\ intrAt # {}) => C8_ShutdownOnce

(* C8 amended: the child's chunks are forwarded in order, newlines removed, until the
   stream closes or a KeyboardInterrupt arrives; if the interrupt arrives while
   anyio.run is executing (before the child starts, between chunks, or while a chunk
   is being logged), and none arrives during log configuration or inside the finally
   clause, run_vite returns normally and the shutdown message is logged exactly once,
   after every forwarded message. *)
C8_Shutdown ==
    /\ (Ended /\ intrAt # {} /\ intrAt \subseteq {"spawn", "read", "log"}) => C8_ShutdownOnce
    /\ Len(Forwarded) = (IF rpc = "log" \/ "log" \in intrAt THEN cur - 1 ELSE cur)
    /\ \A i \in 1..Len(Forwarded) :
            Forwarded[i] = [event |-> "Vite",
                            message |-> SelectSeq(stream[i], LAMBDA ch : ch = "v")]
    /\ (Ended /\ intrAt = {} /\ pending = "none") => (cur = Len(stream) /\ C8_ShutdownOnce)
    /\ StoppedCount <= 1

(* Interrupted while the second chunk was being logged, after the first was forwarded. *)
C8_Witness ==
    /\ rpc = "returned" /\ intrAt = {"log"} /\ cur = 2 /\ Len(log) = 2
    /\ \E i \in 1..Len(stream[1]) : stream[1][i] = "\n"

----------------------------------------------------------------------------
(* Specifications *)

InitAsset ==
    /\ hot_reload \in BOOLEAN
    /\ is_react = FALSE
    /\ manifest \in (IF hot_reload THEN PlainManifests ELSE Manifests)
    /\ instance = 1
    /\ req = Idle
    /\ stack = <<>>
    /\ result = NoResult
    /\ consulted = FALSE
    /\ file = NoFile /\ builds = 0 /\ tpc = <<>> /\ tparsed = <<>> /\ tret = <<>>
    /\ reads = 0 /\ allocs = 1
    /\ firstDone = [done |-> TRUE, inst |-> 1, man |-> manifest, reads |-> 0]
    /\ cfg = NoConfig /\ cache = 0 /\ built = 0 /\ attempts = 0 /\ cbcalls = <<>>
    /\ access = NoAccess /\ naccess = 0
    /\ rpc = "off" /\ stream = <<>> /\ cur = 0 /\ log = <<>> /\ pending = "none"
    /\ intrAt = {}

(* The template engine serving calls from page templates. *)
NextAsset ==
    \/ \E path \in Names, attrs \in AttrValues : Resource(path, attrs)
    \/ HotReloadReturn
    \/ NotFoundRaise
    \/ EntryFound
    \/ CallImport
    \/ RecursionOverflow
    \/ ScriptReturn

SpecAsset == InitAsset /\ [][NextAsset]_vars

(* A call that has started keeps running: the interpreter executes it to its end. *)
FairSpecAsset == SpecAsset /\ WF_vars(AssetStep)

====
